---- MODULE Spec2Model ----
(***************************************************************************)
(* Worker-thread engine of the miner (minethd.cpp): the job broadcast      *)
(* (thread_starter, switch_work, consume_work), the single-hash worker     *)
(* (work_main), the dual-hash worker (double_work_main) and the hashrate   *)
(* telemetry ring (push_perf_value, calc_telemetry_data).                  *)
(*                                                                         *)
(* Threads are interleaved step by step.  A step is one access to shared   *)
(* state (an atomic load, store or read-modify-write, or one chunk of a    *)
(* copy of oGlobalWork) together with the thread-private statements that   *)
(* follow it; the hash of a round is a step of its own.                    *)
(***************************************************************************)
EXTENDS Integers, Sequences, FiniteSets, TLC

\* ------------------------------------------------------------------ bounds
NumThreads == 2      \* jconf::GetThreadCount(): workers started by thread_starter
MaxJobs == 2         \* switch_work calls made by the producer
MaxIter == 2         \* hash rounds one worker performs on one job
NonceBits == 4       \* bits of a nonce: uint32_t scaled down, arithmetic is % 2^NonceBits
LogBucketSize == 2   \* telemetry ring of 2^LogBucketSize slots
MaxPush == 5         \* push_perf_value calls
MaxTime == 5         \* the clock's last millisecond
MaxDelta == 2        \* hashes counted between two samples, at most
MaxGarbage == 3      \* a timestamp that was never written holds 0 .. MaxGarbage
MaxGarbageCount == 1 \* a hash count that was never written holds 0 .. MaxGarbageCount

\* --------------------------------------------------------- program constants
hashes == 2          \* lanes of double_work_main

NonceMod == 2 ^ NonceBits

Threads == 0 .. NumThreads - 1
Lanes == 0 .. hashes - 1

\* jconf::GetThreadConfig(i).bDoubleMode: single and double threads alternate
bDoubleMode(i) == i % 2 = 1

\* ------------------------------------------------------------------- jobs
\* miner_work: sJobID, bWorkBlob (the nonce is the 32-bit field at offset 39),
\* and the scalar fields.  A copy of a miner_work proceeds chunk by chunk.
Chunks == {"sJobID", "bWorkBlob", "scalars"}

\* The work the pool hands over for job number k.  Identifier, work bytes and
\* pool identifier are tagged with k so that two jobs differ in every chunk.
PoolNonce == 0
JobTarget(k) == IF k = 0 THEN 1 ELSE k
Job(k, stall) ==
    [sJobID |-> k,
     bWorkBlob |-> [tag |-> k, nonce |-> PoolNonce],
     bStall |-> stall,
     iTarget |-> JobTarget(k),
     iPoolId |-> k,
     iResumeCnt |-> k]

\* dst with chunk c overwritten from src (one step of memcpy / operator=)
CopyChunk(dst, src, c) ==
    CASE c = "sJobID" -> [dst EXCEPT !.sJobID = src.sJobID]
      [] c = "bWorkBlob" -> [dst EXCEPT !.bWorkBlob = src.bWorkBlob]
      [] OTHER -> [dst EXCEPT !.bStall = src.bStall,
                              !.iTarget = src.iTarget,
                              !.iPoolId = src.iPoolId,
                              !.iResumeCnt = src.iResumeCnt]

\* calc_start_nonce / calc_nicehash_nonce (minethd.h): the start nonce, a
\* uint32_t derived from the resume counter.  Resume counter 1 starts two
\* below the largest nonce.
calc_start_nonce(resume) == (resume * (NonceMod - 2)) % NonceMod

\* The hash backend (cryptonight_hash_ctx and its variants): a deterministic
\* function of the bytes hashed.  A digest is kept as the bytes it was
\* computed from and the value of its bytes 24..31 (what piHashVal reads).
cryptonight_hash(blob) == [in |-> blob, hv |-> (blob.tag + blob.nonce) % 2]

\* Memory nobody has written yet
NoWork ==
    [sJobID |-> -1, bWorkBlob |-> [tag |-> -1, nonce |-> 0],
     bStall |-> TRUE, iTarget |-> 0, iPoolId |-> -1, iResumeCnt |-> 0]
Null == -1

\* jconf::slow_mem_cfg
Policies == {"never_use", "no_mlck", "print_warning", "always_use", "unknown_value"}

\* cryptonight_alloc_ctx(use_fast_mem, use_mlock, msg) returns NULL ("fail")
\* or a context whose ctx_info[0] is 1 ("large") or not ("small"); without
\* fast memory it has no large pages to give
Outcomes(use_fast_mem) ==
    IF use_fast_mem = 1 THEN {"fail", "small", "large"} ELSE {"fail", "small"}
NoAlloc == [policy |-> "none", calls |-> <<>>, got |-> "fail"]

\* telemetry: the ring's capacity, a power of two, and its index mask
iBucketSize == 2 ^ LogBucketSize
iBucketMask == iBucketSize - 1
Slots == 0 .. iBucketSize - 1
\* a result is NaN, or the quotient fHashes / (fTime / 1000)
NaN == [nan |-> TRUE, fHashes |-> 0, fTime |-> 0]
Rate(fHashes, fTime) == [nan |-> FALSE, fHashes |-> fHashes, fTime |-> fTime]
NoCall == [called |-> FALSE, iTimeNow |-> 0, iLastMilisec |-> 0, fResult |-> NaN]

VARIABLES
    \* static state of minethd
    iGlobalJobNo, iConsumeCnt, oGlobalWork, iThreadCount,
    \* per worker: the content of oGlobalWork that the worker's plain reads
    \* return (the writes to oGlobalWork that are visible to the worker)
    view,
    \* producer (the thread calling thread_starter and switch_work)
    ppc, pWork, pTodo, nSpawned, published,
    \* per worker: minethd members
    pc, oWork, iJobNo, bQuit,
    \* per worker: locals of work_main / double_work_main
    cTodo, site, iNonce, written, sJobID,
    bDoubleWorkBlob, piNonce,
    \* executor::push_event: the events pushed by a worker's latest round
    pushed,
    \* telemetry: the worker observed, and its ring
    iThread, ppHashCounts, ppTimestamps, iBucketTop,
    \* the samples pushed so far, and the latest calc_telemetry_data call
    samples, fCall,
    \* per worker and lane: the hash context of work_main / double_work_main
    ctx,
    \* jconf: GetSlowMemSetting, GetThreadConfig(i).bNoPrefetch, HaveHardwareAes
    slowMem, cfgNoPrefetch, bHaveAes,
    \* self_test: its position, ctx0 .. ctx4, bResult and the value returned
    stpc, stCtx, bTestResult, stRet,
    \* the calls self_test has made to the allocator and the hash backend, and
    \* the latest call of minethd_alloc_ctx
    stLog, lastAlloc

statics == <<iGlobalJobNo, iConsumeCnt, oGlobalWork, iThreadCount, view>>
producer == <<ppc, pWork, pTodo, nSpawned, published>>
members == <<pc, oWork, iJobNo, bQuit>>
search == <<iNonce, written, sJobID, pushed>>
lanes == <<bDoubleWorkBlob, piNonce>>
locals == <<cTodo, site, search, lanes>>
tele == <<iThread, ppHashCounts, ppTimestamps, iBucketTop, samples, fCall>>
conf == <<slowMem, cfgNoPrefetch, bHaveAes>>
test == <<conf, stpc, stCtx, bTestResult, stRet, stLog, lastAlloc>>
vars == <<statics, producer, members, locals, tele, ctx, test>>

\* ------------------------------------------------------------------- Init
\* The statics are zero-initialised, and thread_starter zeroes iGlobalJobNo
\* and iConsumeCnt again before it constructs the first worker.  pWork is the
\* work thread_starter is called with; published[k] is the work of job
\* number k (0: the work the workers are constructed with).
InitMiner ==
    /\ iGlobalJobNo = 0
    /\ iConsumeCnt = 0
    /\ iThreadCount = 0
    /\ oGlobalWork = NoWork
    /\ view = [w \in Threads |-> NoWork]
    /\ ppc = "starter"
    /\ pWork \in {Job(0, s) : s \in BOOLEAN}
    /\ pTodo = {}
    /\ nSpawned = 0
    /\ published = [k \in {0} |-> pWork]
    /\ pc = [w \in Threads |-> "unborn"]
    /\ oWork = [w \in Threads |-> NoWork]
    /\ iJobNo = [w \in Threads |-> 0]
    /\ bQuit = [w \in Threads |-> FALSE]
    /\ cTodo = [w \in Threads |-> {}]
    /\ site = [w \in Threads |-> "none"]
    /\ iNonce = [w \in Threads |-> 0]
    /\ written = [w \in Threads |-> <<>>]
    /\ sJobID = [w \in Threads |-> -1]
    /\ bDoubleWorkBlob = [w \in Threads |-> [i \in Lanes |-> NoWork.bWorkBlob]]
    /\ piNonce = [w \in Threads |-> [i \in Lanes |-> Null]]
    /\ pushed = [w \in Threads |-> {}]
    /\ iBucketTop = 0
    /\ samples = <<>>
    /\ fCall = NoCall
    /\ ctx = [w \in Threads |-> [i \in Lanes |-> "none"]]
    /\ stpc = "start"
    /\ stCtx = <<>>
    /\ bTestResult = TRUE
    /\ stRet = "none"
    /\ stLog = <<>>
    /\ lastAlloc = NoAlloc

\* new uint64_t[iBucketSize]: the words of the array are not initialised
Fresh(max) == [Slots -> 0 .. max]
Zeroed == [i \in Slots |-> 0]

\* The row the memset of iteration i of the constructor's loop clears
MemsetRow(i) == 0

\* telemetry::telemetry(iThd): row t of ppHashCounts (of ppTimestamps) when
\* the loop has ended, fresh being the row as it was allocated.  Row t is
\* allocated in iteration t and cleared by a later memset that names it.
telemetry(iThd, t, fresh) ==
    IF \E i \in t .. iThd - 1 : MemsetRow(i) = t THEN Zeroed ELSE fresh

\* The ring observed is that of worker 0
InitState ==
    /\ InitMiner
    /\ iThread = 0
    /\ ppHashCounts = telemetry(NumThreads, iThread, Zeroed)
    /\ ppTimestamps = telemetry(NumThreads, iThread, Zeroed)

\* The miner on one configuration (the workers' steps do not depend on it)
Init ==
    /\ InitState
    /\ slowMem = "print_warning"
    /\ cfgNoPrefetch = [w \in Threads |-> FALSE]
    /\ bHaveAes = TRUE

\* The ring observed is that of any worker, as the constructor leaves it
InitTelemetry ==
    /\ InitMiner
    /\ slowMem = "print_warning"
    /\ cfgNoPrefetch = [w \in Threads |-> FALSE]
    /\ bHaveAes = TRUE
    /\ iThread \in Threads
    /\ \E freshCounts \in Fresh(MaxGarbageCount), freshStamps \in Fresh(MaxGarbage) :
          /\ ppHashCounts = telemetry(NumThreads, iThread, freshCounts)
          /\ ppTimestamps = telemetry(NumThreads, iThread, freshStamps)

\* Any configuration
InitAnyConf ==
    /\ InitState
    /\ slowMem \in Policies
    /\ cfgNoPrefetch \in [Threads -> BOOLEAN]
    /\ bHaveAes \in BOOLEAN

\* ---------------------------------------------------------------- producer
\* thread_starter, one iteration of its loop: construct worker nSpawned
\* (minethd::minethd copies the work, zeroes bQuit and iJobNo, starts the thread)
Spawn ==
    /\ ppc = "starter"
    /\ nSpawned < NumThreads
    /\ oWork' = [oWork EXCEPT ![nSpawned] = pWork]
    /\ bQuit' = [bQuit EXCEPT ![nSpawned] = FALSE]
    /\ iJobNo' = [iJobNo EXCEPT ![nSpawned] = 0]
    /\ pc' = [pc EXCEPT ![nSpawned] = "start"]
    /\ nSpawned' = nSpawned + 1
    /\ UNCHANGED <<tele, test, ctx, statics, ppc, pWork, pTodo, published, locals>>

\* thread_starter after its loop: iThreadCount = n; return
StarterReturn ==
    /\ ppc = "starter"
    /\ nSpawned = NumThreads
    /\ iThreadCount' = NumThreads
    /\ ppc' = "idle"
    /\ UNCHANGED <<tele, test, ctx, iGlobalJobNo, iConsumeCnt, oGlobalWork, view, pWork, pTodo,
                   nSpawned, published, members, locals>>

\* The producer calls switch_work with the work of the next job
nPublished == Cardinality(DOMAIN published) - 1

SwitchWorkCall ==
    /\ ppc = "idle"
    /\ nPublished < MaxJobs
    /\ \E s \in BOOLEAN :
         /\ pWork' = Job(nPublished + 1, s)
         /\ published' = [k \in 0 .. nPublished + 1 |->
                            IF k = nPublished + 1 THEN pWork' ELSE published[k]]
    /\ ppc' = "wait"
    /\ UNCHANGED <<tele, test, ctx, statics, pTodo, nSpawned, members, locals>>

\* The exit condition of switch_work's polling loop
ConsumedByAllNoWait == TRUE
ConsumedByAllButOne == ~(iConsumeCnt + 1 < iThreadCount)
ConsumedByAll == ~(iConsumeCnt < iThreadCount)

\* switch_work leaves its polling loop
SwitchWorkWait ==
    /\ ppc = "wait"
    /\ ConsumedByAll
    /\ ppc' = "assign"
    /\ pTodo' = Chunks
    /\ UNCHANGED <<tele, test, ctx, statics, pWork, nSpawned, published, members, locals>>

\* oGlobalWork = pWork, one chunk.  Under sequential consistency the write
\* is visible to every worker at once; under the weak memory model it
\* reaches a worker by Propagate or by a synchronising atomic operation.
SwitchWorkStore(visible) ==
    /\ ppc = "assign"
    /\ \E c \in pTodo :
         /\ oGlobalWork' = CopyChunk(oGlobalWork, pWork, c)
         /\ view' = IF visible THEN [w \in Threads |-> oGlobalWork'] ELSE view
         /\ pTodo' = pTodo \ {c}
         /\ ppc' = IF pTodo' = {} THEN "reset" ELSE "assign"
    /\ UNCHANGED <<tele, test, ctx, iGlobalJobNo, iConsumeCnt, iThreadCount, pWork, nSpawned,
                   published, members, locals>>

SwitchWorkAssign == SwitchWorkStore(TRUE)

SwitchWorkAssignWeak == SwitchWorkStore(FALSE)

\* The writes of a completed assignment to oGlobalWork become visible to
\* worker w.  (No worker copies while the assignment is being made, and a
\* copy from a partly visible assignment yields nothing that a propagation
\* between two chunks of the copy does not yield.)
Propagate(w) ==
    /\ pc[w] \notin {"unborn", "dead"}
    /\ ppc # "assign"
    /\ view[w] # oGlobalWork
    /\ view' = [view EXCEPT ![w] = oGlobalWork]
    /\ UNCHANGED <<tele, test, ctx, iGlobalJobNo, iConsumeCnt, oGlobalWork, iThreadCount,
                   producer, members, locals>>

\* A seq_cst or acquire operation of worker w on an atomic that reads a
\* value written by switch_work synchronises with it: the writes switch_work
\* made before become visible to w.  A relaxed load does not synchronise.
Synchronizes(order) == order \in {"seq_cst", "acquire", "acq_rel"}

Acquire(w, order) ==
    view' = IF Synchronizes(order) THEN [view EXCEPT ![w] = oGlobalWork] ELSE view

\* iGlobalJobNo.load(std::memory_order_relaxed) in the workers' loops
\* (JobNoLoadAcquire: the load with the order that synchronises)
JobNoLoadAcquire == "acquire"
JobNoLoadOrder == "relaxed"

\* operator++ of std::atomic
IncrementOrder == "seq_cst"

\* iConsumeCnt.store(0)
SwitchWorkReset ==
    /\ ppc = "reset"
    /\ iConsumeCnt' = 0
    /\ ppc' = "inc"
    /\ UNCHANGED <<tele, test, ctx, iGlobalJobNo, oGlobalWork, iThreadCount, view, pWork, pTodo,
                   nSpawned, published, members, locals>>

\* iGlobalJobNo++
NextJobNoSkip(n) == n + 2
NextJobNo(n) == n + 1

SwitchWorkInc ==
    /\ ppc = "inc"
    /\ iGlobalJobNo' = NextJobNo(iGlobalJobNo)
    /\ ppc' = "idle"
    /\ UNCHANGED <<tele, test, ctx, iConsumeCnt, oGlobalWork, iThreadCount, view, pWork, pTodo,
                   nSpawned, published, members, locals>>

\* The executor sets a worker's quit flag
SetQuit(w) ==
    /\ pc[w] \notin {"unborn", "done", "dead"}
    /\ ~bQuit[w]
    /\ bQuit' = [bQuit EXCEPT ![w] = TRUE]
    /\ UNCHANGED <<tele, test, ctx, statics, producer, pc, oWork, iJobNo, locals>>

\* ------------------------------------------------------- minethd_alloc_ctx
\* minethd_alloc_ctx: the flags of the first cryptonight_alloc_ctx call
FirstAttempt(policy) ==
    CASE policy = "never_use" -> [fast |-> 1, mlock |-> 1]
      [] policy = "no_mlck" -> [fast |-> 1, mlock |-> 0]
      [] policy = "print_warning" -> [fast |-> 1, mlock |-> 1]
      [] OTHER -> [fast |-> 0, mlock |-> 0]

\* minethd_alloc_ctx: the case that calls cryptonight_alloc_ctx(0, 0, NULL)
\* when ctx == NULL
FallsBackAlways(policy) == TRUE
FallsBack(policy) == policy = "print_warning"

\* minethd_alloc_ctx, first and second being what the first and the second
\* call of cryptonight_alloc_ctx return (if they are made)
minethd_alloc_ctx(policy, first, second) ==
    IF policy = "unknown_value"
    THEN [policy |-> policy, calls |-> <<>>, got |-> "fail"]
    ELSE LET a == FirstAttempt(policy)
             one == [fast |-> a.fast, mlock |-> a.mlock, out |-> first]
         IN IF first = "fail" /\ FallsBack(policy)
            THEN [policy |-> policy,
                  calls |-> <<one, [fast |-> 0, mlock |-> 0, out |-> second]>>,
                  got |-> second]
            ELSE [policy |-> policy, calls |-> <<one>>, got |-> first]

\* What the allocator may answer to the calls of minethd_alloc_ctx
Answers(policy) ==
    Outcomes(FirstAttempt(policy).fast) \X Outcomes(0)

\* ----------------------------------------------------------------- workers
\* work_main / double_work_main up to the outer loop: the hash contexts are
\* allocated, the lane pointers set (piNonce[0] to lane 0, the others to
\* nullptr; bDoubleWorkBlob is left as it is), and iConsumeCnt++
UsedLanes(w) == IF bDoubleMode(w) THEN Lanes ELSE {0}

\* What minethd_alloc_ctx may return under the configured policy
AllocResults ==
    {minethd_alloc_ctx(slowMem, a[1], a[2]).got : a \in Answers(slowMem)}

CtxOf(got) == IF got = "fail" THEN "null" ELSE "live"

MissingCtx(w) == \E i \in UsedLanes(w) : ctx[w][i] = "null"

\* got[i] is what minethd_alloc_ctx returns for lane i
WorkerStartWith(w, got) ==
    /\ pc[w] = "start"
    /\ ctx' = [ctx EXCEPT ![w] =
                 [i \in Lanes |-> IF i \in UsedLanes(w) THEN CtxOf(got[i]) ELSE @[i]]]
    /\ iConsumeCnt' = iConsumeCnt + 1
    /\ Acquire(w, IncrementOrder)
    /\ piNonce' = [piNonce EXCEPT ![w] =
                     IF bDoubleMode(w)
                     THEN [i \in Lanes |-> IF i = 0 THEN 0 ELSE Null]
                     ELSE @]
    /\ pc' = [pc EXCEPT ![w] = "top"]
    /\ UNCHANGED <<tele, test, iGlobalJobNo, oGlobalWork, iThreadCount, producer, oWork,
                   iJobNo, bQuit, cTodo, site, search, bDoubleWorkBlob>>

\* The worker starts and every allocation gives a context
WorkerStart(w) ==
    \E got \in [Lanes -> AllocResults \ {"fail"}] :
       /\ \A i \in Lanes : got[i] = got[0]
       /\ WorkerStartWith(w, got)

\* The worker starts and an allocation returns NULL: neither work_main nor
\* double_work_main looks at the pointer
WorkerStartNoCtx(w) ==
    \E got \in [Lanes -> {"fail", "small"}] :
       /\ got[0] \in AllocResults /\ "fail" \in AllocResults
       /\ \E i \in UsedLanes(w) : got[i] = "fail"
       /\ \A i \in Lanes \ UsedLanes(w) : got[i] = "fail"
       /\ WorkerStartWith(w, got)

\* if (oWork.bStall)
StalledNever(w) == FALSE
Stalled(w) == oWork[w].bStall

\* iGlobalJobNo.load() == iJobNo fails
JobChangedNever(w) == FALSE
JobChanged(w) == iGlobalJobNo # iJobNo[w]

\* while (bQuit == 0): the loop condition fails
QuitSeenNever(w) == FALSE
QuitSeen(w) == bQuit[w]

\* while (bQuit == 0) fails: the hash contexts are freed, the thread ends
WorkerQuit(w) ==
    /\ pc[w] = "top"
    /\ QuitSeen(w)
    /\ pc' = [pc EXCEPT ![w] = "done"]
    /\ ctx' = [ctx EXCEPT ![w] = [i \in Lanes |-> IF @[i] = "live" THEN "freed" ELSE @[i]]]
    /\ UNCHANGED <<tele, test, statics, producer, oWork, iJobNo, bQuit, locals>>

\* Top of the outer loop on a stalled job: enter the park loop
EnterPark(w) ==
    /\ pc[w] = "top"
    /\ ~QuitSeen(w)
    /\ Stalled(w)
    /\ pc' = [pc EXCEPT ![w] = "park"]
    /\ UNCHANGED <<tele, test, ctx, statics, producer, oWork, iJobNo, bQuit, locals>>

\* Top of the outer loop on a job to search: the start nonce is computed
\* (calc_nicehash_nonce or calc_start_nonce); work_main copies the job
\* identifier into result.sJobID
EnterSearch(w) ==
    /\ pc[w] = "top"
    /\ ~QuitSeen(w)
    /\ ~Stalled(w)
    /\ iNonce' = [iNonce EXCEPT ![w] = calc_start_nonce(oWork[w].iResumeCnt)]
    /\ written' = [written EXCEPT ![w] = <<>>]
    /\ sJobID' = [sJobID EXCEPT ![w] =
                    IF bDoubleMode(w) THEN @ ELSE oWork[w].sJobID]
    /\ pc' = [pc EXCEPT ![w] = "loop"]
    /\ UNCHANGED <<tele, test, ctx, statics, producer, oWork, iJobNo, bQuit, cTodo, site,
                   pushed, lanes>>

\* The park loop ends: consume_work is entered from the stall branch
LeavePark(w) ==
    /\ pc[w] = "park"
    /\ JobChanged(w)
    /\ pc' = [pc EXCEPT ![w] = "copy"]
    /\ cTodo' = [cTodo EXCEPT ![w] = Chunks]
    /\ site' = [site EXCEPT ![w] = "stall"]
    /\ Acquire(w, JobNoLoadOrder)
    /\ UNCHANGED <<tele, test, ctx, iGlobalJobNo, iConsumeCnt, oGlobalWork, iThreadCount,
                   producer, oWork, iJobNo, bQuit, search, lanes>>

\* The inner loop ends: consume_work is entered after the search.  The nonce
\* cursor is dead from here on (the next search computes a new start nonce)
\* and is kept as 0.
LeaveSearch(w) ==
    /\ pc[w] = "loop"
    /\ JobChanged(w)
    /\ pc' = [pc EXCEPT ![w] = "copy"]
    /\ cTodo' = [cTodo EXCEPT ![w] = Chunks]
    /\ site' = [site EXCEPT ![w] = "change"]
    /\ iNonce' = [iNonce EXCEPT ![w] = 0]
    /\ written' = [written EXCEPT ![w] = <<>>]
    /\ pushed' = [pushed EXCEPT ![w] = {}]
    /\ Acquire(w, JobNoLoadOrder)
    /\ UNCHANGED <<tele, test, ctx, iGlobalJobNo, iConsumeCnt, oGlobalWork, iThreadCount,
                   producer, oWork, iJobNo, bQuit, sJobID, lanes>>

\* ++result.iNonce / ++iNonce on a uint32_t
NextNonceStuck(n) == n
NextNonce(n) == (n + 1) % NonceMod

\* work_main, inner loop: *piNonce = ++result.iNonce
WriteNonce(w) ==
    /\ pc[w] = "loop"
    /\ ~bDoubleMode(w)
    /\ ~JobChanged(w)
    /\ Len(written[w]) < MaxIter
    /\ iNonce' = [iNonce EXCEPT ![w] = NextNonce(@)]
    /\ oWork' = [oWork EXCEPT ![w].bWorkBlob.nonce = iNonce'[w]]
    /\ written' = [written EXCEPT ![w] = Append(@, iNonce'[w])]
    /\ pushed' = [pushed EXCEPT ![w] = {}]
    /\ pc' = [pc EXCEPT ![w] = "hash"]
    /\ UNCHANGED <<tele, test, ctx, statics, producer, iJobNo, bQuit, cTodo, site, sJobID, lanes>>

\* if (*piHashVal < oWork.iTarget)
QualifiesOrEqual(hv, target) == hv <= target
Qualifies(hv, target) == hv < target

\* work_main, inner loop: the hash of oWork.bWorkBlob into result.bResult,
\* the comparison with the target and the push_event
HashAndEmit(w) ==
    /\ pc[w] = "hash"
    /\ ~bDoubleMode(w)
    /\ ~MissingCtx(w)
    /\ LET bResult == cryptonight_hash(oWork[w].bWorkBlob)
       IN pushed' = [pushed EXCEPT ![w] =
                       IF Qualifies(bResult.hv, oWork[w].iTarget)
                       THEN {[sJobID |-> sJobID[w], iNonce |-> iNonce[w],
                              bResult |-> bResult, iPoolId |-> oWork[w].iPoolId]}
                       ELSE {}]
    /\ pc' = [pc EXCEPT ![w] = "loop"]
    /\ UNCHANGED <<tele, test, ctx, statics, producer, oWork, iJobNo, bQuit, cTodo, site,
                   iNonce, written, sJobID, lanes>>

\* The cursor after lane i's ++iNonce of one round
RECURSIVE RoundNonce(_, _)
RoundNonce(v, i) == IF i < 0 THEN v ELSE NextNonce(RoundNonce(v, i - 1))

\* double_work_main, inner loop: *piNonce[i] = ++iNonce for every lane.  A
\* store through a null lane pointer is an invalid access: the process dies,
\* and with it every thread.
WriteLaneNonces(w) ==
    /\ pc[w] = "loop"
    /\ bDoubleMode(w)
    /\ ~JobChanged(w)
    /\ Len(written[w]) < MaxIter
    /\ IF \E i \in Lanes : piNonce[w][i] = Null
       THEN /\ pc' = [t \in Threads |-> "dead"]
            /\ ppc' = "dead"
            /\ UNCHANGED <<iNonce, written, bDoubleWorkBlob, pushed>>
       ELSE /\ bDoubleWorkBlob' = [bDoubleWorkBlob EXCEPT ![w] =
                  [b \in Lanes |->
                     IF \E i \in Lanes : piNonce[w][i] = b
                     THEN LET i == CHOOSE j \in Lanes :
                                     /\ piNonce[w][j] = b
                                     /\ \A k \in Lanes : piNonce[w][k] = b => k <= j
                          IN [@[b] EXCEPT !.nonce = RoundNonce(iNonce[w], i)]
                     ELSE @[b]]]
            /\ iNonce' = [iNonce EXCEPT ![w] = RoundNonce(@, hashes - 1)]
            /\ written' = [written EXCEPT ![w] = Append(@, iNonce'[w])]
            /\ pushed' = [pushed EXCEPT ![w] = {}]
            /\ pc' = [pc EXCEPT ![w] = "hash"]
            /\ UNCHANGED ppc
    /\ UNCHANGED <<tele, test, ctx, statics, pWork, pTodo, nSpawned, published, oWork, iJobNo,
                   bQuit, cTodo, site, sJobID, piNonce>>

\* iNonce-(hashes-i-1) on a uint32_t
LaneNonceNoOffset(v, i) == v
LaneNonce(v, i) == (v - (hashes - i - 1)) % NonceMod

\* double_work_main, inner loop: the batched hash of the lanes into
\* bDoubleHashOut, then per lane the comparison with the target and the
\* push_event
DoubleHashAndEmit(w) ==
    /\ pc[w] = "hash"
    /\ bDoubleMode(w)
    /\ ~MissingCtx(w)
    /\ LET bDoubleHashOut == [i \in Lanes |-> cryptonight_hash(bDoubleWorkBlob[w][i])]
       IN pushed' = [pushed EXCEPT ![w] =
              {[sJobID |-> oWork[w].sJobID, iNonce |-> LaneNonce(iNonce[w], i),
                bResult |-> bDoubleHashOut[i], iPoolId |-> oWork[w].iPoolId] :
               i \in {j \in Lanes :
                        Qualifies(bDoubleHashOut[j].hv, oWork[w].iTarget)}}]
    /\ pc' = [pc EXCEPT ![w] = "loop"]
    /\ UNCHANGED <<tele, test, ctx, statics, producer, oWork, iJobNo, bQuit, cTodo, site,
                   iNonce, written, sJobID, lanes>>

\* The hash function is called with a context that is NULL: it
\* dereferences the pointer and the process dies
HashWithoutCtx(w) ==
    /\ pc[w] = "hash"
    /\ MissingCtx(w)
    /\ pc' = [v \in Threads |-> "dead"]
    /\ ppc' = "dead"
    /\ UNCHANGED <<tele, test, ctx, statics, pWork, pTodo, nSpawned, published, oWork,
                   iJobNo, bQuit, locals>>

\* consume_work: iJobNo++
NextLocalJobNoSame(n) == n
NextLocalJobNo(n) == n + 1

\* consume_work: memcpy(&oWork, &oGlobalWork, sizeof(miner_work)), one chunk;
\* after the last chunk, iJobNo++
ConsumeCopy(w) ==
    /\ pc[w] = "copy"
    /\ \E c \in cTodo[w] :
         /\ oWork' = [oWork EXCEPT ![w] = CopyChunk(@, view[w], c)]
         /\ cTodo' = [cTodo EXCEPT ![w] = @ \ {c}]
         /\ pc' = [pc EXCEPT ![w] = IF cTodo'[w] = {} THEN "cnt" ELSE "copy"]
         /\ iJobNo' = [iJobNo EXCEPT ![w] = IF cTodo'[w] = {} THEN NextLocalJobNo(@)
                                              ELSE @]
    /\ UNCHANGED <<tele, test, ctx, statics, producer, bQuit, site, search, lanes>>

\* double_work_main after consume_work: every lane gets a copy of
\* oWork.bWorkBlob; the stall branch sets every piNonce[i], the branch after
\* the search those with i > 0
LaneSync(w, from) ==
    /\ bDoubleWorkBlob' = [bDoubleWorkBlob EXCEPT ![w] =
                             [i \in Lanes |-> oWork[w].bWorkBlob]]
    /\ piNonce' = [piNonce EXCEPT ![w] =
                     [i \in Lanes |-> IF from = "stall" \/ i > 0 THEN i ELSE @[i]]]

\* consume_work: iConsumeCnt++, and the return to the top of the outer loop
\* (double_work_main: through the copy of the work into its lanes)
ConsumeCnt(w) ==
    /\ pc[w] = "cnt"
    /\ iConsumeCnt' = iConsumeCnt + 1
    /\ Acquire(w, IncrementOrder)
    /\ IF bDoubleMode(w) THEN LaneSync(w, site[w]) ELSE UNCHANGED lanes
    /\ site' = [site EXCEPT ![w] = "none"]
    /\ pc' = [pc EXCEPT ![w] = "top"]
    /\ UNCHANGED <<tele, test, ctx, iGlobalJobNo, oGlobalWork, iThreadCount, producer, oWork,
                   iJobNo, bQuit, cTodo, search>>

\* ---------------------------------------------------------------- telemetry
\* push_perf_value: store the sample at the cursor, advance the cursor.  The
\* executor passes a worker's cumulative hash count and the time it was
\* taken: counts and timestamps do not decrease, timestamps are not zero.
LastSample ==
    IF samples = <<>> THEN [iHashCount |-> 0, iTimestamp |-> 1]
    ELSE samples[Len(samples)]

push_perf_value(iHashCount, iTimestamp) ==
    LET iTop == iBucketTop
    IN /\ ppHashCounts' = [ppHashCounts EXCEPT ![iTop] = iHashCount]
       /\ ppTimestamps' = [ppTimestamps EXCEPT ![iTop] = iTimestamp]
       /\ iBucketTop' = (iTop + 1) % (iBucketMask + 1)

PushPerfValue ==
    /\ Len(samples) < MaxPush
    /\ \E d \in 1 .. MaxDelta, t \in LastSample.iTimestamp .. MaxTime :
         /\ push_perf_value(LastSample.iHashCount + d, t)
         /\ samples' = Append(samples, [iHashCount |-> LastSample.iHashCount + d,
                                        iTimestamp |-> t])
    /\ fCall' = NoCall
    /\ UNCHANGED <<statics, producer, members, locals, test, ctx, iThread>>

\* calc_telemetry_data: the slots the loop examines are those at distance
\* 1 .. LastDistance behind the cursor (LastDistanceFull: a loop over every
\* slot of the ring)
LastDistanceFull == iBucketSize
LastDistance == iBucketSize - 1

\* iTimeNow - ppTimestamps[iThread][idx] > iLastMilisec, in uint64_t: with
\* a timestamp ahead of the clock the difference wraps around and is above
\* every period asked for
OutOfPeriod(iTimeNow, iStamp, iLastMilisec) ==
    IF iStamp > iTimeNow THEN TRUE ELSE iTimeNow - iStamp > iLastMilisec

\* The loop of calc_telemetry_data from distance i on, st being its locals
RECURSIVE Walk(_, _, _, _)
Walk(i, st, iTimeNow, iLastMilisec) ==
    IF i > LastDistance THEN st
    ELSE
      LET idx == (iBucketTop - i) % (iBucketMask + 1)
      IN IF ppTimestamps[idx] = 0 THEN st
         ELSE
           LET st1 == IF st.iLastestStamp = 0
                      THEN [st EXCEPT !.iLastestStamp = ppTimestamps[idx],
                                      !.iLastestHashCnt = ppHashCounts[idx]]
                      ELSE st
           IN IF OutOfPeriod(iTimeNow, ppTimestamps[idx], iLastMilisec)
              THEN [st1 EXCEPT !.bHaveFullSet = TRUE]
              ELSE Walk(i + 1,
                        [st1 EXCEPT !.iEarliestStamp = ppTimestamps[idx],
                                    !.iEarliestHashCnt = ppHashCounts[idx]],
                        iTimeNow, iLastMilisec)

\* The value returned
calc_telemetry_data(iLastMilisec, iTimeNow) ==
    LET st == Walk(1, [iEarliestHashCnt |-> 0, iEarliestStamp |-> 0,
                       iLastestStamp |-> 0, iLastestHashCnt |-> 0,
                       bHaveFullSet |-> FALSE], iTimeNow, iLastMilisec)
    IN IF ~st.bHaveFullSet \/ st.iEarliestStamp = 0 \/ st.iLastestStamp = 0
       THEN NaN
       ELSE IF st.iLastestStamp - st.iEarliestStamp = 0
       THEN NaN
       ELSE Rate(st.iLastestHashCnt - st.iEarliestHashCnt,
                 st.iLastestStamp - st.iEarliestStamp)

\* A call of calc_telemetry_data; the clock is not behind the newest sample
CalcTelemetryData ==
    /\ \E iTimeNow \in LastSample.iTimestamp .. MaxTime, iLastMilisec \in 0 .. MaxTime :
         fCall' = [called |-> TRUE, iTimeNow |-> iTimeNow, iLastMilisec |-> iLastMilisec,
                   fResult |-> calc_telemetry_data(iLastMilisec, iTimeNow)]
    /\ UNCHANGED <<statics, producer, members, locals, test, ctx, iThread,
                   ppHashCounts, ppTimestamps, iBucketTop, samples>>

\* ---------------------------------------------------------------- self-test
\* A call made to the allocator or the hash backend
Call(op, fast, mlock, c, in, out) ==
    [op |-> op, fast |-> fast, mlock |-> mlock, ctx |-> c, in |-> in, out |-> out]

\* The calls of one minethd_alloc_ctx, as log entries; id names the context
AllocCalls(r, id) ==
    [k \in 1 .. Len(r.calls) |->
        Call("cryptonight_alloc_ctx", r.calls[k].fast, r.calls[k].mlock,
             IF r.calls[k].out = "fail" THEN {} ELSE {id}, "", <<r.calls[k].out>>)]

\* cryptonight_free_ctx of the contexts cs, in order (FreeCallsButLast: the
\* last of them is left out)
FreeCallsButLast(cs) ==
    [k \in 1 .. Len(cs) - 1 |-> Call("cryptonight_free_ctx", 0, 0, {cs[k].id}, "", <<>>)]

FreeCalls(cs) ==
    [k \in 1 .. Len(cs) |-> Call("cryptonight_free_ctx", 0, 0, {cs[k].id}, "", <<>>)]

\* self_test up to the first allocation: cryptonight_init with the flags of
\* the policy; return false on unknown_value, or when it fails and the
\* policy makes that fatal
InitFlags(policy) ==
    CASE policy = "never_use" -> [fast |-> 1, mlock |-> 1, fatal |-> TRUE]
      [] policy = "no_mlck" -> [fast |-> 1, mlock |-> 0, fatal |-> TRUE]
      [] policy = "print_warning" -> [fast |-> 1, mlock |-> 1, fatal |-> FALSE]
      [] OTHER -> [fast |-> 0, mlock |-> 0, fatal |-> FALSE]

SelfTestInit ==
    /\ stpc = "start"
    /\ IF slowMem = "unknown_value"
       THEN /\ stRet' = "false"
            /\ stpc' = "returned"
            /\ UNCHANGED stLog
       ELSE \E res \in {0, 1} :
              LET f == InitFlags(slowMem)
              IN /\ stLog' = Append(stLog, Call("cryptonight_init", f.fast, f.mlock,
                                                {}, "", <<IF res = 0 THEN "fail" ELSE "ok">>))
                 /\ IF res = 0 /\ f.fatal
                    THEN stRet' = "false" /\ stpc' = "returned"
                    ELSE stRet' = stRet /\ stpc' = "alloc"
    /\ UNCHANGED <<statics, producer, members, locals, tele, ctx, conf,
                   stCtx, bTestResult, lastAlloc>>

\* self_test: ctxK = minethd_alloc_ctx(); on nullptr the contexts allocated
\* so far are freed and self_test returns false
NumTestCtx == 5

SelfTestAlloc ==
    /\ stpc = "alloc"
    /\ \E ans \in Answers(slowMem) :
         LET r == minethd_alloc_ctx(slowMem, ans[1], ans[2])
             id == Len(stCtx)
         IN /\ lastAlloc' = r
            /\ IF r.got = "fail"
               THEN /\ stLog' = stLog \o AllocCalls(r, id) \o FreeCalls(stCtx)
                    /\ stRet' = "false"
                    /\ stpc' = "returned"
                    /\ UNCHANGED stCtx
               ELSE /\ stLog' = stLog \o AllocCalls(r, id)
                    /\ stCtx' = Append(stCtx, [id |-> id, lp |-> IF r.got = "large" THEN 1 ELSE 0])
                    /\ stpc' = IF Len(stCtx') = NumTestCtx THEN "config" ELSE "alloc"
                    /\ UNCHANGED stRet
    /\ UNCHANGED <<statics, producer, members, locals, tele, ctx, conf, bTestResult>>

\* self_test: the loop over the configured threads
bHasLpFirstOnly == stCtx[1].lp = 1
bHasLp == stCtx[1].lp = 1 /\ stCtx[2].lp = 1

WrongConfig == \E i \in Threads : ~bHasLp /\ cfgNoPrefetch[i]

SelfTestConfig ==
    /\ stpc = "config"
    /\ IF WrongConfig
       THEN /\ stLog' = stLog \o FreeCalls(stCtx)
            /\ stRet' = "false"
            /\ stpc' = "returned"
       ELSE /\ stpc' = "hash"
            /\ UNCHANGED <<stLog, stRet>>
    /\ UNCHANGED <<statics, producer, members, locals, tele, ctx, conf,
                   stCtx, bTestResult, lastAlloc>>

\* The digest the reference implementation gives for an input, and the
\* digests a backend may give
Reference(in) == "ref:" \o in
Digests == {Reference("nada"), Reference("nado"), Reference("This is a test"), "other"}

\* self_test with hardware AES: cryptonight_hash_ctx_np of "nada" into
\* results[0], of "nado" into results[1 .. 6], cryptonight_double_hash_ctx of
\* "nada", "nado" into out; bResult = memcmp(out, results, 32*2) == 0
HardwareCalls(np, dbl) ==
    <<Call("cryptonight_hash_ctx_np", 0, 0, {stCtx[1].id}, "nada", <<np["nada"]>>)>>
    \o [z \in 1 .. 6 |->
          Call("cryptonight_hash_ctx_np", 0, 0, {stCtx[1].id}, "nado", <<np["nado"]>>)]
    \o <<Call("cryptonight_double_hash_ctx", 0, 0,
              {stCtx[k].id : k \in 1 .. NumTestCtx}, "nadanado", dbl)>>

HardwareResult(np, dbl) == dbl[1] = np["nada"] /\ dbl[2] = np["nado"]

\* self_test without hardware AES: cryptonight_hash_ctx_soft of
\* "This is a test" into out; bResult = memcmp(out, <digest>, 32) == 0
SoftwareCalls(soft) ==
    <<Call("cryptonight_hash_ctx_soft", 0, 0, {stCtx[1].id}, "This is a test", <<soft>>)>>

SoftwareResult(soft) == soft = Reference("This is a test")

SelfTestHash ==
    /\ stpc = "hash"
    /\ IF bHaveAes
       THEN \E np \in [{"nada", "nado"} -> Digests], dbl \in [1 .. hashes -> Digests] :
              /\ stLog' = stLog \o HardwareCalls(np, dbl)
              /\ bTestResult' = HardwareResult(np, dbl)
       ELSE \E soft \in Digests :
              /\ stLog' = stLog \o SoftwareCalls(soft)
              /\ bTestResult' = SoftwareResult(soft)
    /\ stpc' = "free"
    /\ UNCHANGED <<statics, producer, members, locals, tele, ctx, conf,
                   stCtx, stRet, lastAlloc>>

\* self_test: the five contexts are freed, bResult is returned
SelfTestFree ==
    /\ stpc = "free"
    /\ stLog' = stLog \o FreeCalls(stCtx)
    /\ stRet' = IF bTestResult THEN "true" ELSE "false"
    /\ stpc' = "returned"
    /\ UNCHANGED <<statics, producer, members, locals, tele, ctx, conf,
                   stCtx, bTestResult, lastAlloc>>

\* ------------------------------------------------------------------- Next
Producer ==
    \/ Spawn
    \/ StarterReturn
    \/ SwitchWorkCall
    \/ SwitchWorkWait
    \/ SwitchWorkAssign
    \/ SwitchWorkReset
    \/ SwitchWorkInc

Worker(w) ==
    \/ WorkerStart(w)
    \/ EnterPark(w)
    \/ EnterSearch(w)
    \/ LeavePark(w)
    \/ LeaveSearch(w)
    \/ WriteNonce(w)
    \/ HashAndEmit(w)
    \/ WriteLaneNonces(w)
    \/ DoubleHashAndEmit(w)
    \/ ConsumeCopy(w)
    \/ ConsumeCnt(w)

\* The miner while nobody asks a worker to quit
Next ==
    \/ Producer
    \/ \E w \in Threads : Worker(w)

Spec == Init /\ [][Next]_vars

\* The miner with quit requests
NextQuit ==
    \/ Producer
    \/ \E w \in Threads : Worker(w)
    \/ \E w \in Threads : SetQuit(w)
    \/ \E w \in Threads : WorkerQuit(w)

SpecQuit == Init /\ [][NextQuit]_vars

\* Every thread keeps being scheduled, and the workers are constructed on a
\* stalled work (no job has arrived yet when the miner starts them)
InitStalled == Init /\ pWork.bStall

FairSpec ==
    /\ InitStalled
    /\ [][Next]_vars
    /\ WF_vars(Producer)
    /\ \A w \in Threads : WF_vars(Worker(w))

\* The same with quit requests: a quit flag may be set at any time, every
\* thread keeps being scheduled
FairSpecQuit ==
    /\ InitStalled
    /\ [][NextQuit]_vars
    /\ WF_vars(Producer)
    /\ \A w \in Threads : WF_vars(Worker(w) \/ WorkerQuit(w))

\* The miner under the weak memory model: a plain write to oGlobalWork
\* becomes visible to a worker at some later time, or when the worker
\* synchronises with the writer
ProducerWeak ==
    \/ Spawn
    \/ StarterReturn
    \/ SwitchWorkCall
    \/ SwitchWorkWait
    \/ SwitchWorkAssignWeak
    \/ SwitchWorkReset
    \/ SwitchWorkInc

NextWeak ==
    \/ ProducerWeak
    \/ \E w \in Threads : Worker(w)
    \/ \E w \in Threads : Propagate(w)

SpecWeak == Init /\ [][NextWeak]_vars

\* The miner when an allocation of a worker may fail
NextAlloc ==
    \/ Producer
    \/ \E w \in Threads : Worker(w)
    \/ \E w \in Threads : WorkerStartNoCtx(w)
    \/ \E w \in Threads : HashWithoutCtx(w)

SpecAlloc == Init /\ [][NextAlloc]_vars

\* The telemetry of one worker: samples are pushed, rates are asked for
NextTelemetry ==
    \/ PushPerfValue
    \/ CalcTelemetryData

SpecTelemetry == Init /\ [][NextTelemetry]_vars

\* The telemetry of any worker before its first sample: rates are asked for
SpecTelemetryNew == InitTelemetry /\ [][CalcTelemetryData]_vars

\* self_test, on any configuration, with any answers of the allocator and
\* any hash backend
NextSelfTest ==
    \/ SelfTestInit
    \/ SelfTestAlloc
    \/ SelfTestConfig
    \/ SelfTestHash
    \/ SelfTestFree

SpecSelfTest == InitAnyConf /\ [][NextSelfTest]_vars

\* ================================================================= claims
\* a and b are the same job: equal in every field, the nonce bytes of the
\* work blob (which the search overwrites) apart
SameJob(a, b) == [a EXCEPT !.bWorkBlob.nonce = PoolNonce] = b

\* The jobs passed to switch_work so far
Calls == DOMAIN published \ {0}

\* Worker w is inside consume_work
InConsume(w) == pc[w] \in {"copy", "cnt"}

\* Worker w has run consume_work at least once and is not copying
HoldsConsumed(w) ==
    /\ iJobNo[w] >= 1
    /\ pc[w] \in {"cnt", "top", "park", "loop", "hash", "done"}

\* C1 (handoff exclusivity): whenever a worker is past the copy of
\* consume_work, its private job is one job passed to switch_work, field for
\* field (at the end of consume_work: byte for byte), and no other; it is
\* never a mix of two published jobs.
C1_HandoffExclusive ==
    \A w \in Threads :
        HoldsConsumed(w) =>
            /\ Cardinality({k \in Calls : SameJob(oWork[w], published[k])}) = 1
            /\ pc[w] = "cnt" => \E k \in Calls : oWork[w] = published[k]

\* Both workers have finished a consume_work of the second job while the
\* producer had published twice
C1_Witness ==
    /\ \A w \in Threads : pc[w] = "cnt" /\ iJobNo[w] = 2
    /\ nPublished = 2

\* C2 (overwrite gate): while switch_work overwrites oGlobalWork the consumed
\* count equals the worker count and no worker is inside consume_work; the
\* count is zero and the work installed while the job number is still to be
\* incremented.
C2_OverwriteGate ==
    /\ ppc \in {"assign", "reset"} =>
          /\ iConsumeCnt = iThreadCount
          /\ iThreadCount = NumThreads
          /\ \A w \in Threads : ~InConsume(w) /\ pc[w] \notin {"unborn", "start"}
    /\ ppc \in {"reset", "inc"} => oGlobalWork = pWork
    /\ ppc = "inc" =>
          /\ iConsumeCnt = 0
          /\ iGlobalJobNo = nPublished - 1
          /\ \A w \in Threads : ~InConsume(w)

\* switch_work is half way through overwriting a job every worker consumed
C2_Witness ==
    /\ ppc = "assign"
    /\ Cardinality(pTodo) = 1
    /\ iGlobalJobNo = 1
    /\ \A w \in Threads : iJobNo[w] = 1

\* C3 (no job starvation): a worker that has finished the copy of
\* consume_work holds exactly the job of the latest switch_work call that
\* returned, its job number is the global one, and the global job number is
\* the number of switch_work calls that have installed their job.
C3_NoStarvation ==
    /\ \A w \in Threads :
          pc[w] = "cnt" =>
              /\ iJobNo[w] = iGlobalJobNo
              /\ iJobNo[w] \in Calls
              /\ oWork[w] = published[iJobNo[w]]
    /\ ppc \in {"wait", "assign", "reset", "inc"} => iGlobalJobNo = nPublished - 1
    /\ ppc \in {"starter", "idle"} => iGlobalJobNo = nPublished

\* Every worker has consumed the first and then the second published job
C3_Witness ==
    /\ \A w \in Threads : iJobNo[w] = 2 /\ pc[w] \in {"top", "park", "loop", "hash"}
    /\ ppc = "idle"

\* The nonce bytes and digests worker w has produced, and what it has emitted
SearchTrace(w) == <<written[w], iNonce[w], pushed[w], oWork[w].bWorkBlob.nonce>>

\* C5 (stall means no search): a worker is never in its search loop with a
\* stalled private job; from the top of the outer loop or the park loop a
\* worker on a stalled job writes no nonce, hashes nothing and emits nothing,
\* and it leaves the park loop only into consume_work and only when the
\* global job number differs from its own; after consume_work it is at the
\* top of the outer loop, where the stall flag is tested again.
C5_StallInv ==
    \A w \in Threads :
        /\ pc[w] \in {"loop", "hash"} => ~oWork[w].bStall
        /\ pc[w] = "park" => oWork[w].bStall /\ pushed[w] = {} /\ written[w] = <<>>

C5_StallStep ==
    \A w \in Threads :
        (pc[w] \in {"top", "park"} /\ oWork[w].bStall /\ pc'[w] # pc[w]) =>
            /\ SearchTrace(w)' = SearchTrace(w)
            /\ pc[w] = "top" => pc'[w] \in {"park", "done", "dead"}
            /\ pc[w] = "park" =>
                  \/ pc'[w] = "dead"
                  \/ pc'[w] = "copy" /\ iGlobalJobNo # iJobNo[w]

C5_AfterConsume ==
    \A w \in Threads :
        (pc[w] = "cnt" /\ pc'[w] # pc[w]) =>
            /\ pc'[w] \in {"top", "dead"}
            /\ written'[w] = <<>> /\ pushed'[w] = {}

C5_StallNoSearch ==
    /\ []C5_StallInv
    /\ [][C5_StallStep /\ C5_AfterConsume]_vars

\* Both kinds of worker are parked on a stalled job they consumed
C5_Witness ==
    \A w \in Threads : pc[w] = "park" /\ iJobNo[w] = 1 /\ oWork[w].bStall

\* C4 (publish liveness): every switch_work call leaves its polling loop and
\* installs its job, and every worker then consumes that job, whether it was
\* searching or parked.
C4_PublishLiveness ==
    \A k \in 1 .. MaxJobs :
        /\ (ppc = "wait" /\ nPublished = k)
              ~> (iGlobalJobNo = k /\ k \in Calls /\ oGlobalWork = published[k])
        /\ (iGlobalJobNo = k) ~> (\A w \in Threads : iJobNo[w] = k)

\* switch_work polls (a worker has not consumed yet) while one worker
\* searches and another is parked
C4_Witness ==
    /\ ppc = "wait"
    /\ iConsumeCnt < iThreadCount
    /\ \E w \in Threads : pc[w] = "park"
    /\ \E w \in Threads : pc[w] \in {"loop", "hash"}

\* C6 (publication ordering): under the weak memory model, a worker whose
\* load of the global job number returned n+1 sees, while it runs
\* consume_work, all the writes switch_work made to the global job for
\* publication n+1, and so holds that publication when its copy is complete.
C6_PublicationOrdering ==
    \A w \in Threads :
        /\ pc[w] = "copy" => view[w] = published[iJobNo[w] + 1]
        /\ pc[w] = "cnt" => oWork[w] = published[iJobNo[w]]

\* A worker has completed a copy in which it read, for one part of the job,
\* the content the global job had before the publication it observed
C6_StaleCopy ==
    \E w \in Threads :
        /\ pc[w] = "cnt"
        /\ iJobNo[w] = iGlobalJobNo
        /\ oWork[w] # published[iJobNo[w]]

\* The nonces worker w has written on its current job, as a set
Tried(w) == {written[w][i] : i \in 1 .. Len(written[w])}

\* C7 as claimed (nonce non-overlap): the nonces a single-hash worker writes
\* between one consume_work and the next are strictly increasing, for every
\* start nonce and every number of iterations.
C7_StrictlyIncreasing ==
    \A w \in Threads :
        ~bDoubleMode(w) =>
            \A i, j \in 1 .. Len(written[w]) : i < j => written[w][i] < written[w][j]

\* C7 as amended: each nonce written is the previous one plus one modulo
\* 2^NonceBits (the first: the start nonce plus one), so the sequence is
\* strictly increasing up to the largest nonce, wraps to 0 after it, and
\* repeats no value within 2^NonceBits writes.
C7_ConsecutiveModulo ==
    \A w \in Threads :
        (~bDoubleMode(w) /\ pc[w] \in {"loop", "hash"}) =>
            /\ \A i \in 1 .. Len(written[w]) :
                  LET prev == IF i = 1 THEN calc_start_nonce(oWork[w].iResumeCnt)
                              ELSE written[w][i - 1]
                  IN /\ written[w][i] = (prev + 1) % NonceMod
                     /\ prev < NonceMod - 1 => written[w][i] > prev
                     /\ prev = NonceMod - 1 => written[w][i] = 0
            /\ Len(written[w]) <= NonceMod => Cardinality(Tried(w)) = Len(written[w])
            /\ written[w] # <<>> =>
                  /\ iNonce[w] = written[w][Len(written[w])]
                  /\ oWork[w].bWorkBlob.nonce = iNonce[w]

\* A single-hash worker has written the largest nonce and then 0
C7_Witness ==
    \E w \in Threads :
        /\ ~bDoubleMode(w)
        /\ written[w] = <<NonceMod - 1, 0>>

\* C8 (dual-hash lane attribution): after a round that leaves the cursor at
\* v, lane i's buffer holds nonce v - (hashes - i - 1) (in the nonce's
\* unsigned arithmetic), and every result emitted by the round is, for one
\* lane i, that nonce together with the digest of lane i's buffer.
C8_LaneAttribution ==
    \A w \in Threads :
        (bDoubleMode(w) /\ pc[w] = "loop" /\ written[w] # <<>>) =>
            LET v == iNonce[w]
                attributed(i) == (v - (hashes - i - 1)) % NonceMod
            IN /\ \A i \in Lanes : bDoubleWorkBlob[w][i].nonce = attributed(i)
               /\ \A e \in pushed[w] :
                     \E i \in Lanes :
                        /\ e.iNonce = attributed(i)
                        /\ e.bResult = cryptonight_hash(bDoubleWorkBlob[w][i])
                        /\ e.bResult.in.nonce = e.iNonce
               /\ \A i \in Lanes :
                     cryptonight_hash(bDoubleWorkBlob[w][i]).hv < oWork[w].iTarget
                        => \E e \in pushed[w] : e.iNonce = attributed(i)

\* A round whose cursor wrapped to 0 emitted lane 0's result with the
\* largest nonce
C8_Witness ==
    \E w \in Threads :
        /\ bDoubleMode(w) /\ pc[w] = "loop"
        /\ iNonce[w] = 0
        /\ \E e \in pushed[w] : e.iNonce = NonceMod - 1

\* C9 (result emission): after each hash of a single-hash worker, a result
\* was pushed if and only if the value of digest bytes 24..31 is strictly
\* below the target of the worker's private job; it carries that job's
\* identifier and pool identifier, the nonce written into the buffer for
\* this hash, and the digest of the buffer.
C9_ResultEmission ==
    \A w \in Threads :
        (~bDoubleMode(w) /\ pc[w] = "loop" /\ written[w] # <<>>) =>
            LET digest == cryptonight_hash(oWork[w].bWorkBlob)
            IN /\ pushed[w] # {} <=> digest.hv < oWork[w].iTarget
               /\ Cardinality(pushed[w]) <= 1
               /\ \A e \in pushed[w] :
                     /\ e.sJobID = oWork[w].sJobID
                     /\ e.sJobID = published[iJobNo[w]].sJobID
                     /\ e.iPoolId = oWork[w].iPoolId
                     /\ e.iNonce = oWork[w].bWorkBlob.nonce
                     /\ e.iNonce = written[w][Len(written[w])]
                     /\ e.bResult = digest

\* A single-hash worker emitted a result for its job after a newer job had
\* been published
C9_Witness ==
    \E w \in Threads :
        /\ ~bDoubleMode(w) /\ pc[w] = "loop"
        /\ pushed[w] # {}
        /\ iGlobalJobNo = iJobNo[w] + 1
        /\ iJobNo[w] >= 1

\* A single-hash worker computed a digest equal to the target and emitted
\* nothing
C9_WitnessNoEmit ==
    \E w \in Threads :
        /\ ~bDoubleMode(w) /\ pc[w] = "loop" /\ written[w] # <<>>
        /\ pushed[w] = {}
        /\ cryptonight_hash(oWork[w].bWorkBlob).hv = oWork[w].iTarget

\* The samples the ring holds, oldest first: the last iBucketSize pushed
Stored ==
    LET n == Len(samples)
        first == IF n > iBucketSize THEN n - iBucketSize + 1 ELSE 1
    IN [k \in 1 .. (n - first + 1) |-> samples[first + k - 1]]

\* The rate C10 states for a call at time now with the window win
ClaimedRate(now, win) ==
    LET inside == {k \in DOMAIN Stored : now - Stored[k].iTimestamp <= win}
        older == {k \in DOMAIN Stored : now - Stored[k].iTimestamp > win}
    IN IF older = {} \/ inside = {} THEN NaN
       ELSE LET latest == Stored[Len(Stored)]
                earliest == Stored[CHOOSE k \in inside : \A j \in inside : k <= j]
            IN IF latest.iTimestamp = earliest.iTimestamp THEN NaN
               ELSE Rate(latest.iHashCount - earliest.iHashCount,
                         latest.iTimestamp - earliest.iTimestamp)

\* C10 as claimed (telemetry window correctness): for every sequence of
\* samples with non-zero, non-decreasing timestamps, calc_telemetry_data
\* returns (latest count - earliest count) / (seconds between the anchors)
\* whenever a stored sample is older than the window, latest being the newest
\* sample and earliest the oldest sample inside the window, and NaN when no
\* stored sample is older than the window or the anchors' timestamps are equal.
C10_WindowRate ==
    fCall.called =>
        fCall.fResult = ClaimedRate(fCall.iTimeNow, fCall.iLastMilisec)

\* The ring is filled exactly to capacity, its oldest sample alone is older
\* than the window, and the call answered NaN
C10_FullRingNoData ==
    /\ Len(samples) = iBucketSize
    /\ fCall.called
    /\ fCall.fResult = NaN
    /\ ClaimedRate(fCall.iTimeNow, fCall.iLastMilisec) # NaN

\* C11 (allocation policy): minethd_alloc_ctx under print_warning makes a
\* second, unlocked attempt exactly when the locked attempt returned no
\* context and fails only if that attempt fails too; under never_use and
\* no_mlck it makes exactly one attempt and returns its result; under
\* always_use it makes one unlocked attempt.
C11_AllocPolicy ==
    LET r == lastAlloc
        n == Len(r.calls)
    IN r.policy # "none" =>
         /\ r.policy = slowMem
         /\ r.policy = "print_warning" =>
              /\ n \in {1, 2}
              /\ r.calls[1].fast = 1 /\ r.calls[1].mlock = 1
              /\ n = 2 <=> r.calls[1].out = "fail"
              /\ n = 2 => r.calls[2].fast = 0 /\ r.calls[2].mlock = 0
              /\ r.got = r.calls[n].out
              /\ r.got = "fail" <=> \A k \in 1 .. n : r.calls[k].out = "fail"
         /\ r.policy \in {"never_use", "no_mlck"} =>
              /\ n = 1
              /\ r.calls[1].fast = 1
              /\ r.calls[1].mlock = (IF r.policy = "never_use" THEN 1 ELSE 0)
              /\ r.got = r.calls[1].out
         /\ r.policy = "always_use" =>
              /\ n = 1
              /\ r.calls[1].fast = 0 /\ r.calls[1].mlock = 0
              /\ r.got = r.calls[1].out

\* Under print_warning the locked attempt failed and the fallback gave a
\* context; under never_use the only attempt failed
C11_Witness ==
    /\ lastAlloc.policy = "print_warning"
    /\ Len(lastAlloc.calls) = 2
    /\ lastAlloc.got = "small"

C11_WitnessFatal ==
    /\ lastAlloc.policy = "never_use"
    /\ Len(lastAlloc.calls) = 1
    /\ lastAlloc.got = "fail"

\* C12 as claimed (worker allocation failure): a worker for which
\* minethd_alloc_ctx returned no context (for its one context, or for any
\* lane of the dual-hash worker) never reaches the call of a hash function
\* and emits no result.
C12_NoHashWithoutCtx ==
    \A w \in Threads :
        MissingCtx(w) => /\ pc[w] # "hash"
                         /\ pushed[w] = {}

\* A worker without a context is at the call of the hash function
C12_HashWithoutCtx ==
    \E w \in Threads :
        /\ MissingCtx(w)
        /\ pc[w] = "hash"

\* The calls of hash functions self_test has made
HashOps == {"cryptonight_hash_ctx_np", "cryptonight_double_hash_ctx",
            "cryptonight_hash_ctx_soft"}
HashCalls == {k \in 1 .. Len(stLog) : stLog[k].op \in HashOps}

\* C13 (self-test configuration check): once the five contexts are
\* allocated, self_test returns failure without having computed a digest if
\* some configured worker has the no-prefetch flag and large pages are
\* unavailable (ctx0 or ctx1 has none), and otherwise goes on to compute the
\* digests.
C13_ConfigCheck ==
    LET noPrefetch == \E i \in Threads : cfgNoPrefetch[i]
        largePages == stCtx[1].lp = 1 /\ stCtx[2].lp = 1
    IN (Len(stCtx) = NumTestCtx /\ stpc # "config") =>
          IF noPrefetch /\ ~largePages
          THEN stpc = "returned" /\ stRet = "false" /\ HashCalls = {}
          ELSE /\ stpc \in {"hash", "free", "returned"}
               /\ stpc \in {"free", "returned"} => HashCalls # {}

\* self_test returned failure from the configuration check: a worker asks
\* for no-prefetch, ctx0 has large pages and ctx1 has none
C13_Witness ==
    /\ stpc = "returned" /\ stRet = "false"
    /\ Len(stCtx) = NumTestCtx /\ HashCalls = {}
    /\ stCtx[1].lp = 1 /\ stCtx[2].lp = 0
    /\ \E i \in Threads : cfgNoPrefetch[i]

\* self_test went on to the digests with a no-prefetch worker and large pages
C13_WitnessPass ==
    /\ stpc = "returned" /\ HashCalls # {}
    /\ \E i \in Threads : cfgNoPrefetch[i]

\* The digests the reference implementation gives for the input of a call
Expected(call) ==
    IF call.op = "cryptonight_double_hash_ctx"
    THEN <<Reference("nada"), Reference("nado")>>
    ELSE <<Reference(call.in)>>

\* C14 as claimed (self-test digest check): whatever the hash backend
\* computes, self_test returns success only if every hash call it made (the
\* hardware single and batched-dual variants with hardware AES, the software
\* variant without) produced the reference digest of its input.
C14_DigestCheck ==
    stRet = "true" =>
        \A k \in HashCalls : \A j \in DOMAIN stLog[k].out :
            stLog[k].out[j] = Expected(stLog[k])[j]

\* self_test returned success although a hash call gave a digest that is not
\* the reference digest of its input
C14_WrongDigestAccepted ==
    /\ stRet = "true"
    /\ bHaveAes
    /\ \E k \in HashCalls :
          /\ stLog[k].op = "cryptonight_hash_ctx_np"
          /\ stLog[k].out[1] # Reference(stLog[k].in)

\* The loops a worker waits or searches in
InLoops(w) == pc[w] \in {"park", "loop", "hash"}

CtxFreed(w) == \A i \in UsedLanes(w) : ctx[w][i] = "freed"

\* C15 (cancellation at job boundaries only): a worker whose quit flag is
\* set stays in its search loop or its park loop while the global job
\* number equals its own, and terminates only from the top of the outer
\* loop, its contexts freed.
C15_StaysInLoop ==
    \A w \in Threads :
        /\ (bQuit[w] /\ InLoops(w) /\ iGlobalJobNo = iJobNo[w]) => InLoops(w)'
        /\ (pc[w] # "done" /\ pc'[w] = "done") =>
              bQuit[w] /\ pc[w] = "top" /\ CtxFreed(w)'

\* C15, continued: once the job number has advanced, the worker consumes the
\* job and terminates with its contexts freed.
C15_Cancellation ==
    /\ [][C15_StaysInLoop]_vars
    /\ \A w \in Threads :
          (bQuit[w] /\ InLoops(w) /\ iGlobalJobNo # iJobNo[w])
             ~> (pc[w] = "done" /\ CtxFreed(w) /\ iJobNo[w] >= 1)

\* A worker has its quit flag set and stays in its search loop, having
\* written nonces, while another worker has terminated after consuming a job
C15_Witness ==
    \E w, v \in Threads :
        /\ bQuit[w] /\ pc[w] = "loop" /\ written[w] # <<>>
        /\ iGlobalJobNo = iJobNo[w]
        /\ pc[v] = "done" /\ iJobNo[v] >= 1 /\ CtxFreed(v)

\* The ring is as the claim has the constructor leave it
AllZero == \A i \in Slots : ppTimestamps[i] = 0 /\ ppHashCounts[i] = 0

\* C16 (telemetry slot initialisation): while no sample of a worker has
\* been pushed, every slot of its ring has timestamp zero and hash count
\* zero, and calc_telemetry_data returns "no data" for it.
C16_SlotsInitialised ==
    samples = <<>> =>
        /\ AllZero
        /\ fCall.called => fCall.fResult = NaN

\* A worker other than the first has no samples and calc_telemetry_data
\* returns a rate for it
C16_RateWithoutSamples ==
    /\ iThread # 0
    /\ samples = <<>>
    /\ ~AllZero
    /\ fCall.called
    /\ fCall.fResult # NaN

\* thread_starter has returned: its last statement has set iThreadCount
StarterReturned == iThreadCount = NumThreads

\* The workers whose local job number is the global one
UpToDate == {w \in Threads : iJobNo[w] = iGlobalJobNo}

\* C17 (counter invariant): once thread_starter has returned, the consumed
\* count is between 0 and the worker count and not above the number of
\* workers whose local job number is the global one, every local job number
\* is the global one or one less, and it is the global one where
\* consume_work increments the count.
C17_CounterInvariant ==
    StarterReturned =>
        /\ iConsumeCnt \in 0 .. iThreadCount
        /\ iConsumeCnt <= Cardinality(UpToDate)
        /\ \A w \in Threads : iJobNo[w] \in {iGlobalJobNo, iGlobalJobNo - 1}
        /\ \A w \in Threads : pc[w] = "cnt" => iJobNo[w] = iGlobalJobNo

\* A worker is about to count itself for a published job that another
\* worker has not yet consumed
C17_Witness ==
    /\ StarterReturned
    /\ iGlobalJobNo >= 1
    /\ \E w, v \in Threads :
          /\ pc[w] = "cnt"
          /\ iJobNo[v] = iGlobalJobNo - 1

\* Lane i of worker w is set up for the worker's private job: its nonce
\* pointer refers to its own buffer, and the buffer holds the work bytes of
\* oWork, the nonce field apart
LaneReady(w, i) ==
    /\ piNonce[w][i] = i
    /\ [bDoubleWorkBlob[w][i] EXCEPT !.nonce = PoolNonce]
          = [oWork[w].bWorkBlob EXCEPT !.nonce = PoolNonce]

\* C18 (dual-hash lane synchronisation): while a dual-hash worker is in its
\* search loop, at the stores of the nonces and at the batched hash, every
\* lane is set up for the worker's private job.
C18_LaneSync ==
    \A w \in Threads :
        (bDoubleMode(w) /\ pc[w] \in {"loop", "hash"}) =>
            \A i \in Lanes : LaneReady(w, i)

\* A dual-hash worker constructed on a work that is not stalled has reached
\* the first round of its search, lane 1 having no nonce pointer, and the
\* store through it has ended the process
C18_NullLaneStore ==
    \E w \in Threads :
        /\ bDoubleMode(w)
        /\ iJobNo[w] = 0
        /\ ~oWork[w].bStall
        /\ piNonce[w][1] = Null
        /\ written[w] = <<>>
        /\ pc[w] = "dead"

\* C19 (publish liveness across worker exit): with quit flags set and
\* workers terminated, every switch_work call still returns, having
\* advanced the job number to that of its job.
C19_PublishLivenessAfterExit ==
    \A k \in 1 .. MaxJobs :
        (ppc = "wait" /\ nPublished = k) ~> (ppc = "idle" /\ iGlobalJobNo = k)

\* switch_work polls for a count that cannot be reached: a worker has
\* terminated without having consumed the current job, and every other
\* worker has consumed it
C19_PollsForever ==
    /\ ppc = "wait"
    /\ iConsumeCnt < iThreadCount
    /\ \E w \in Threads : pc[w] = "done" /\ bQuit[w]
    /\ \A w \in Threads :
          pc[w] # "done" => (iJobNo[w] = iGlobalJobNo /\ pc[w] \in {"park", "loop"})
    /\ iConsumeCnt = Cardinality({w \in Threads : pc[w] # "done"})

\* The contexts minethd_alloc_ctx has returned to self_test, and the
\* positions in the log of the calls that free context id
Allocated ==
    UNION {stLog[k].ctx : k \in {j \in DOMAIN stLog : stLog[j].op = "cryptonight_alloc_ctx"}}

FreesOf(id) ==
    {k \in DOMAIN stLog : stLog[k].op = "cryptonight_free_ctx" /\ id \in stLog[k].ctx}

\* C20 (self-test releases what it allocates): no context is passed to any
\* call after it has been freed, only contexts the allocator returned are
\* freed, and when self_test has returned every context the allocator
\* returned has been freed exactly once.
C20_ReleasesAll ==
    /\ \A id \in Allocated : \A k \in FreesOf(id) :
          \A j \in DOMAIN stLog : j > k => id \notin stLog[j].ctx
    /\ \A k \in DOMAIN stLog :
          stLog[k].op = "cryptonight_free_ctx" => stLog[k].ctx \subseteq Allocated
    /\ stpc = "returned" =>
          /\ Allocated = {stCtx[k].id : k \in DOMAIN stCtx}
          /\ \A id \in Allocated : Cardinality(FreesOf(id)) = 1

\* self_test has returned false because its third allocation failed, the
\* two contexts it had been given freed
C20_Witness ==
    /\ stpc = "returned"
    /\ stRet = "false"
    /\ lastAlloc.got = "fail"
    /\ Cardinality(Allocated) = 2
    /\ \A id \in Allocated : FreesOf(id) # {}

====
